---- MODULE Spec2Model ----
(***************************************************************************)
(* State-machine model of the bux-spades game server (the games router and *)
(* its socket handlers, src/unnamed/part_000 lines 125-880) and of the     *)
(* client's card-legality helpers (GameTable.tsx).                         *)
(*                                                                         *)
(* One game of the in-memory store is modelled.  JavaScript null and       *)
(* undefined are the empty tuple None, a present value x is Some(x).       *)
(* Seats are indexed 0..3 as in the source.                                *)
(***************************************************************************)
EXTENDS Integers, Sequences, FiniteSets, TLC

VARIABLES
    status,           \* game.status
    players,          \* game.players : 0..3 -> None | Some([id, type])
    isBotGame,        \* game.isBotGame
    dealerIndex,      \* game.dealerIndex : None | Some(0..3)
    hands,            \* game.hands : None | Some(0..3 -> Seq(Card))
    bidding,          \* game.bidding : None | Some([currentBidderIndex, bids])
    play,             \* game.play : None | Some([currentPlayerIndex, currentTrick, tricks, trickNumber])
    team1TotalScore,  \* game.team1TotalScore (undefined reads as 0, line 626)
    team2TotalScore,  \* game.team2TotalScore
    team1Bags,        \* game.team1Bags
    team2Bags,        \* game.team2Bags
    gameOver,         \* payload of the 'game_over' broadcast : None | Some([team1Score, team2Score, winningTeam])
    debits,           \* number of buy-in debits (prisma.user.update) made per user id
    botMoves,         \* number of 'bot_move' events emitted by botMakeMove
    gameMode,         \* game.gameMode (settings.gameMode of the create request)
    maxPoints,        \* game.maxPoints (settings.maxPoints of the create request)
    minPoints,        \* game.minPoints
    spectators,       \* game.spectators : sequence of user ids
    joins,            \* join requests waiting on prisma.user.findUnique : set of [id, seat]
    starts,           \* start requests waiting on a debit (prisma.user.update) : set of [id, seat]
    games,            \* the games array (line 136) : set of the ids of the stored games
    arg,              \* input of the pure function under check (function harness only)
    ret               \* its result (function harness only)

vars == <<status, players, isBotGame, dealerIndex, hands, bidding, play,
          team1TotalScore, team2TotalScore, team1Bags, team2Bags,
          gameOver, debits, botMoves, gameMode, maxPoints, minPoints, spectators,
          joins, starts, games, arg, ret>>

gameVars == <<status, players, isBotGame, dealerIndex, hands, bidding, play,
              team1TotalScore, team2TotalScore, team1Bags, team2Bags, gameOver>>

\* what the start route and the make_bid and play_card handlers never write
tableVars == <<gameMode, maxPoints, minPoints, spectators, joins, starts, games>>

\* the id of the game under check
GameId == "g1"

\* games.find(g => g.id === gameId) finds the game
found == GameId \in games

-----------------------------------------------------------------------------
(* Bounds of the model *)

\* play_card requests of the seat on turn name one of its first MaxPick cards ...
MaxPick == 2
\* ... during the first FreePlays plays of the hand, and its first card afterwards.
FreePlays == 2
\* Outcomes of the random shuffle that are explored.
MaxShuffle == 2
\* A user is debited at most MaxDebits times (failed start requests can repeat).
MaxDebits == 2

-----------------------------------------------------------------------------
(* null / undefined *)

None == <<>>
Some(x) == <<x>>
IsSome(o) == o # <<>>
Get(o) == o[1]

Seats == 0..3

-----------------------------------------------------------------------------
(* Cards, deck, deal *)

SUITS == <<"S", "H", "D", "C">>
RANKS == <<"2", "3", "4", "5", "6", "7", "8", "9", "10", "J", "Q", "K", "A">>

createDeck ==
    [i \in 1..(Len(SUITS) * Len(RANKS)) |->
        [suit |-> SUITS[((i - 1) \div Len(RANKS)) + 1],
         rank |-> RANKS[((i - 1) % Len(RANKS)) + 1]]]

\* Fisher-Yates with Math.random(): every permutation of the deck is a possible
\* result.  Outcome 0 leaves the deck in createDeck order, outcome k >= 1 cuts
\* the deck so that a seat receives 13 consecutive cards of createDeck,
\* starting (k-1)*17 cards into it.
shuffleIndex(k, i) ==
    IF k = 0 THEN i
    ELSE ((i % 4) * Len(RANKS) + (i \div 4) + (k - 1) * 17) % (Len(SUITS) * Len(RANKS))

shuffle(deck, k) == [i \in 1..Len(deck) |-> deck[shuffleIndex(k, i - 1) + 1]]

RECURSIVE dealLoop(_, _, _, _)
dealLoop(deck, i, hs, current) ==
    IF i > Len(deck) THEN hs
    ELSE dealLoop(deck, i + 1, [hs EXCEPT ![current] = Append(@, deck[i])], (current + 1) % 4)

\* mutant: the first card goes to the dealer's own seat
dealCardsFromDealer(dealer, k) ==
    dealLoop(shuffle(createDeck, k), 1, [p \in Seats |-> <<>>], dealer)

dealCards(dealer, k) ==
    dealLoop(shuffle(createDeck, k), 1, [p \in Seats |-> <<>>], (dealer + 1) % 4)

\* players.map((p, i) => p ? i : null).filter(...) : the occupied indexes, ascending
RECURSIVE playerIndexesFrom(_, _)
playerIndexesFrom(ps, i) ==
    IF i > 3 THEN <<>>
    ELSE (IF IsSome(ps[i]) THEN <<i>> ELSE <<>>) \o playerIndexesFrom(ps, i + 1)

\* mutant: the seat after the previous dealer is taken without looking at it
assignDealerNoFallback(ps, previousDealerIndex, r) ==
    LET playerIndexes == playerIndexesFrom(ps, 0)
    IN  IF Len(playerIndexes) = 0 THEN None
        ELSE IF IsSome(previousDealerIndex)
             THEN Some((Get(previousDealerIndex) + 1) % 4)
             ELSE Some(playerIndexes[(r % Len(playerIndexes)) + 1])

\* r is Math.floor(Math.random() * playerIndexes.length); None models the throw.
assignDealer(ps, previousDealerIndex, r) ==
    LET playerIndexes == playerIndexesFrom(ps, 0)
        includes(x) == \E j \in 1..Len(playerIndexes) : playerIndexes[j] = x
    IN  IF Len(playerIndexes) = 0 THEN None
        ELSE IF IsSome(previousDealerIndex)
             THEN LET nextDealerIndex == (Get(previousDealerIndex) + 1) % 4
                  IN  Some(IF includes(nextDealerIndex) THEN nextDealerIndex ELSE playerIndexes[1])
             ELSE Some(playerIndexes[(r % Len(playerIndexes)) + 1])

\* game.players.findIndex(p => p && p.id === userId); -1 when absent
findIndex(ps, userId) ==
    IF \E i \in Seats : IsSome(ps[i]) /\ Get(ps[i]).id = userId
    THEN CHOOSE i \in Seats :
            /\ IsSome(ps[i]) /\ Get(ps[i]).id = userId
            /\ \A j \in Seats : (IsSome(ps[j]) /\ Get(ps[j]).id = userId) => i <= j
    ELSE 0 - 1

Human(id) == Some([id |-> id, type |-> "human"])
Bot(id) == Some([id |-> id, type |-> "bot"])

someBot(ps) == \E i \in Seats : IsSome(ps[i]) /\ Get(ps[i]).type = "bot"

-----------------------------------------------------------------------------
(* Trick resolution *)

rankMap ==
    ("2" :> 2) @@ ("3" :> 3) @@ ("4" :> 4) @@ ("5" :> 5) @@ ("6" :> 6) @@
    ("7" :> 7) @@ ("8" :> 8) @@ ("9" :> 9) @@ ("10" :> 10) @@
    ("J" :> 11) @@ ("Q" :> 12) @@ ("K" :> 13) @@ ("A" :> 14)

getCardValue(rank) == rankMap[rank]

\* mutant: a spade does not trump another suit
beatsNoTrump(card, winningCard) ==
    card.suit = winningCard.suit /\ getCardValue(card.rank) > getCardValue(winningCard.rank)

\* the condition of the loop body, lines 731-734
beats(card, winningCard) ==
    \/ (card.suit = "S" /\ winningCard.suit # "S")
    \/ (card.suit = winningCard.suit /\ getCardValue(card.rank) > getCardValue(winningCard.rank))

RECURSIVE trickLoop(_, _, _)
trickLoop(trick, i, winningCard) ==
    IF i > Len(trick) THEN winningCard
    ELSE trickLoop(trick, i + 1, IF beats(trick[i], winningCard) THEN trick[i] ELSE winningCard)

determineTrickWinner(trick) == trickLoop(trick, 1, trick[1]).playerIndex

-----------------------------------------------------------------------------
(* Scoring *)

RECURSIVE countWins(_, _, _)
countWins(tricks, i, p) ==
    IF i > Len(tricks) THEN 0
    ELSE (IF tricks[i].winnerIndex = p THEN 1 ELSE 0) + countWins(tricks, i + 1, p)

tricksPerPlayer(tricks) == [p \in Seats |-> countWins(tricks, 1, p)]

\* const bid = game.bidding.bids[i] ?? 0; teamBid += bid   (lines 765-774)
bidOrZero(b) == IF IsSome(b) THEN Get(b) ELSE 0

teamBid(bids, a, b) == bidOrZero(bids[a]) + bidOrZero(bids[b])

\* lines 775-792
baseContract(tBid, tTricks) ==
    IF tTricks >= tBid
    THEN [score |-> tBid * 10 + (tTricks - tBid), bags |-> tTricks - tBid]
    ELSE [score |-> 0 - tBid * 10, bags |-> 0]

\* mutant: the tricks of a failed nil are not added to the bags
nilBonusNoBags(b, tricks) ==
    IF b = Some(0)
    THEN (IF tricks = 0 THEN [score |-> 100, bags |-> 0] ELSE [score |-> 0 - 100, bags |-> 0])
    ELSE IF b = Some(0 - 1)
    THEN (IF tricks = 0 THEN [score |-> 200, bags |-> 0] ELSE [score |-> 0 - 200, bags |-> 0])
    ELSE [score |-> 0, bags |-> 0]

\* lines 793-820, the contribution of one seat
nilBonus(b, tricks) ==
    IF b = Some(0)
    THEN (IF tricks = 0 THEN [score |-> 100, bags |-> 0] ELSE [score |-> 0 - 100, bags |-> tricks])
    ELSE IF b = Some(0 - 1)
    THEN (IF tricks = 0 THEN [score |-> 200, bags |-> 0] ELSE [score |-> 0 - 200, bags |-> tricks])
    ELSE [score |-> 0, bags |-> 0]

\* lines 821-829
bagPenalty(s) ==
    IF s.bags >= 10 THEN [score |-> s.score - 100, bags |-> s.bags - 10] ELSE s

teamHandScore(bids, tpp, a, b) ==
    LET base == baseContract(teamBid(bids, a, b), tpp[a] + tpp[b])
        na == nilBonus(bids[a], tpp[a])
        nb == nilBonus(bids[b], tpp[b])
    IN  bagPenalty([score |-> base.score + na.score + nb.score,
                    bags  |-> base.bags + na.bags + nb.bags])

partnersHandScore(bids, tpp) ==
    LET t1 == teamHandScore(bids, tpp, 0, 2)
        t2 == teamHandScore(bids, tpp, 1, 3)
    IN  [team1Score |-> t1.score, team2Score |-> t2.score,
         team1Bags |-> t1.bags, team2Bags |-> t2.bags,
         tricksPerPlayer |-> tpp]

calculatePartnersHandScore(b, p) == partnersHandScore(b.bids, tricksPerPlayer(p.tricks))

\* lines 626-629: the running totals after a hand
runningTotals(t1s, t2s, t1b, t2b, handSummary) ==
    [team1TotalScore |-> t1s + handSummary.team1Score,
     team2TotalScore |-> t2s + handSummary.team2Score,
     team1Bags |-> t1b + handSummary.team1Bags,
     team2Bags |-> t2b + handSummary.team2Bags]

winThreshold == 500
lossThreshold == 0 - 150

\* lines 641-644
isGameOver(t) ==
    \/ t.team1TotalScore >= winThreshold \/ t.team2TotalScore >= winThreshold
    \/ t.team1TotalScore <= lossThreshold \/ t.team2TotalScore <= lossThreshold

\* line 646
winningTeamOf(t) == IF t.team1TotalScore > t.team2TotalScore THEN 1 ELSE 2

-----------------------------------------------------------------------------
(* The start route, lines 393-447 *)

humanSeatsBefore(ps, n) ==
    {i \in Seats : i < n /\ IsSome(ps[i]) /\ Get(ps[i]).type = "human"}

\* the debit loop of lines 404-411, stopped by a throw at seat failAt (None: no throw)
debitLoop(ps, failAt) ==
    LET upto == IF IsSome(failAt) THEN Get(failAt) ELSE 4
    IN  [u \in DOMAIN debits |->
            debits[u] + Cardinality({i \in humanSeatsBefore(ps, upto) : Get(ps[i]).id = u})]

\* mutant: a failing debit is not noticed
debitNeverThrows(ps, failAt) == FALSE

debitThrows(ps, failAt) ==
    IsSome(failAt) /\ IsSome(ps[Get(failAt)]) /\ Get(ps[Get(failAt)]).type = "human"

\* What the route answers.  r: the random dealer draw, failAt: the seat whose
\* debit throws.
startReply(r, failAt) ==
    IF ~found THEN "Game not found"
    ELSE IF status # "WAITING" THEN "Game already started"
    ELSE IF ~someBot(players) /\ debitThrows(players, failAt)
         THEN "Failed to debit coins from players"
    ELSE IF assignDealer(players, dealerIndex, r) = None
         THEN "Error: No valid players to assign dealer"
    ELSE IF players[(Get(assignDealer(players, dealerIndex, r)) + 1) % 4] = None
         THEN "Invalid game state"
    ELSE "game_started"

\* mutant: a finished game can be started again
startRefusedUnlessOver == ~found \/ status \notin {"WAITING", "COMPLETED"}

\* the guards of lines 394-396
startRefused == ~found \/ status # "WAITING"

\* k: the outcome of the shuffle
\* lines 417-434: the status, the dealer, the hands and the bidding state
beginHand(r, k) ==
    /\ status' = "BIDDING"
    /\ LET dealer == assignDealer(players, dealerIndex, r)
       IN  IF dealer = None
           THEN UNCHANGED <<dealerIndex, hands, bidding>>
           ELSE /\ dealerIndex' = dealer
                /\ hands' = Some(dealCards(Get(dealer), k))
                /\ LET firstBidder == players[(Get(dealer) + 1) % 4]
                   IN  IF firstBidder = None
                       THEN UNCHANGED bidding
                       ELSE bidding' =
                               Some([currentPlayer |-> Get(firstBidder).id,
                                     currentBidderIndex |-> (Get(dealer) + 1) % 4,
                                     bids |-> [i \in Seats |-> None]])

start(r, k, failAt) ==
    IF startRefused
    THEN UNCHANGED vars
    ELSE /\ isBotGame' = someBot(players)
         /\ UNCHANGED tableVars
         /\ UNCHANGED <<players, play, team1TotalScore, team2TotalScore,
                        team1Bags, team2Bags, gameOver, botMoves, arg, ret>>
         /\ IF ~someBot(players) /\ debitThrows(players, failAt)
            THEN /\ debits' = debitLoop(players, failAt)
                 /\ UNCHANGED <<status, dealerIndex, hands, bidding>>
            ELSE /\ debits' = IF someBot(players) THEN debits ELSE debitLoop(players, None)
                 /\ beginHand(r, k)

\* The start route step by step.  start_request runs the guards of lines
\* 394-399; with a bot seated no debit is awaited and the route runs through,
\* otherwise the request enters the debit loop at seat 0.
start_request(id, r, k) ==
    IF startRefused
    THEN UNCHANGED vars
    ELSE IF someBot(players)
    THEN start(r, k, None)
    ELSE /\ isBotGame' = FALSE
         /\ starts' = starts \cup {[id |-> id, seat |-> 0]}
         /\ UNCHANGED <<status, players, dealerIndex, hands, bidding, play,
                        team1TotalScore, team2TotalScore, team1Bags, team2Bags, gameOver,
                        debits, botMoves, gameMode, maxPoints, minPoints, spectators,
                        joins, games, arg, ret>>

\* one iteration of the loop of lines 404-411: the awaited debit of the seat
\* the request has reached, which throws or succeeds
start_debit(s, throws) ==
    /\ s \in starts
    /\ s.seat < 4
    /\ IF players[s.seat] # None /\ Get(players[s.seat]).type = "human"
       THEN IF throws
            THEN /\ starts' = starts \ {s}
                 /\ UNCHANGED debits
            ELSE /\ starts' = (starts \ {s}) \cup {[s EXCEPT !.seat = @ + 1]}
                 /\ debits' = [debits EXCEPT ![Get(players[s.seat]).id] = @ + 1]
       ELSE /\ ~throws
            /\ starts' = (starts \ {s}) \cup {[s EXCEPT !.seat = @ + 1]}
            /\ UNCHANGED debits
    /\ UNCHANGED <<gameVars, botMoves, gameMode, maxPoints, minPoints, spectators,
                   joins, games, arg, ret>>

\* the route after the loop, lines 417-446
start_finish(s, r, k) ==
    /\ s \in starts
    /\ s.seat = 4
    /\ starts' = starts \ {s}
    /\ beginHand(r, k)
    /\ UNCHANGED <<players, isBotGame, play, team1TotalScore, team2TotalScore,
                   team1Bags, team2Bags, gameOver, debits, botMoves, gameMode,
                   maxPoints, minPoints, spectators, joins, games, arg, ret>>

-----------------------------------------------------------------------------
(* The bot turn trigger, lines 483-502.  No handler calls it. *)

botMakeMove(ps, seatIndex, n) ==
    IF ps[seatIndex] = None \/ Get(ps[seatIndex]).type # "bot" THEN n ELSE n + 1

advanceTurnOrBotMove(ps, nextSeatIndex, n) ==
    IF IsSome(ps[nextSeatIndex]) /\ Get(ps[nextSeatIndex]).type = "bot"
    THEN botMakeMove(ps, nextSeatIndex, n)
    ELSE n

-----------------------------------------------------------------------------
(* The make_bid handler, lines 508-561 *)

\* mutant: the turn stays with the seat that just bid
nextBidderStay(bids, next, playerIndex) == playerIndex

\* lines 522-525
RECURSIVE nextBidder(_, _, _)
nextBidder(bids, next, playerIndex) ==
    IF bids[next] # None /\ next # playerIndex
    THEN nextBidder(bids, (next + 1) % 4, playerIndex)
    ELSE next

\* mutant: the play phase is opened by the third bid
allBidsInButOne(bids) == Cardinality({i \in Seats : bids[i] # None}) >= 3

\* game.bidding.bids.every(b => b !== null), line 527
allBidsIn(bids) == \A i \in Seats : bids[i] # None

\* !game.dealerIndex : true for undefined and for 0
falsy(d) == d = None \/ Get(d) = 0

\* mutant: a seat that has bid may bid again
bidDroppedNoRepeatCheck(userId) ==
    \/ ~found
    \/ bidding = None
    \/ findIndex(players, userId) = 0 - 1
    \/ findIndex(players, userId) # Get(bidding).currentBidderIndex

\* the guards of lines 510-516: the request is dropped without an answer
bidDropped(userId) ==
    \/ ~found
    \/ bidding = None
    \/ findIndex(players, userId) = 0 - 1
    \/ findIndex(players, userId) # Get(bidding).currentBidderIndex
    \/ Get(bidding).bids[findIndex(players, userId)] # None

\* the checks of the completion branch, lines 529-537
playStateError ==
    IF falsy(dealerIndex) THEN "Invalid game state: no dealer assigned"
    ELSE IF players[(Get(dealerIndex) + 1) % 4] = None THEN "Invalid game state"
    ELSE ""

\* What the handler emits for a request.
makeBidReply(userId, bid) ==
    IF bidDropped(userId) THEN "dropped"
    ELSE LET b == Get(bidding)
             bids1 == [b.bids EXCEPT ![findIndex(players, userId)] = Some(bid)]
         IN  IF allBidsIn(bids1)
             THEN (IF playStateError # "" THEN playStateError ELSE "play_start")
             ELSE "bidding_update"

make_bid(userId, bid) ==
    IF bidDropped(userId)
    THEN UNCHANGED vars
    ELSE
    LET b == Get(bidding)
        playerIndex == findIndex(players, userId)
        bids1 == [b.bids EXCEPT ![playerIndex] = Some(bid)]
        next == nextBidder(bids1, (playerIndex + 1) % 4, playerIndex)
    IN  /\ UNCHANGED tableVars
        /\ UNCHANGED <<status, players, isBotGame, dealerIndex, hands,
                       team1TotalScore, team2TotalScore, team1Bags, team2Bags,
                       gameOver, debits, botMoves, arg, ret>>
        /\ IF allBidsIn(bids1)
           THEN /\ bidding' = Some([b EXCEPT !.bids = bids1])
                /\ IF playStateError # ""
                   THEN UNCHANGED play
                   ELSE play' =
                           Some([currentPlayer |-> Get(players[(Get(dealerIndex) + 1) % 4]).id,
                                 currentPlayerIndex |-> (Get(dealerIndex) + 1) % 4,
                                 currentTrick |-> <<>>,
                                 tricks |-> <<>>,
                                 trickNumber |-> 0])
           ELSE /\ bidding' = Some([b EXCEPT !.bids = bids1, !.currentBidderIndex = next])
                /\ UNCHANGED play

-----------------------------------------------------------------------------
(* The play_card handler, lines 564-676 *)

\* mutant: a card that is not in the hand is found at the first position
cardIndexOfOrFirst(hand, card) ==
    IF \E i \in 1..Len(hand) : hand[i].suit = card.suit /\ hand[i].rank = card.rank
    THEN CHOOSE i \in 1..Len(hand) :
            /\ hand[i].suit = card.suit /\ hand[i].rank = card.rank
            /\ \A j \in 1..Len(hand) :
                  (hand[j].suit = card.suit /\ hand[j].rank = card.rank) => i <= j
    ELSE IF Len(hand) = 0 THEN 0 ELSE 1

\* hand.findIndex(c => c.suit === card.suit && c.rank === card.rank); 0 when absent
cardIndexOf(hand, card) ==
    IF \E i \in 1..Len(hand) : hand[i].suit = card.suit /\ hand[i].rank = card.rank
    THEN CHOOSE i \in 1..Len(hand) :
            /\ hand[i].suit = card.suit /\ hand[i].rank = card.rank
            /\ \A j \in 1..Len(hand) :
                  (hand[j].suit = card.suit /\ hand[j].rank = card.rank) => i <= j
    ELSE 0

\* mutant: the last card of a hand is not removed
spliceKeepLast(hand, cardIndex) ==
    IF Len(hand) = 1 THEN hand
    ELSE [i \in 1..(Len(hand) - 1) |-> IF i < cardIndex THEN hand[i] ELSE hand[i + 1]]

\* hand.splice(cardIndex, 1)
splice(hand, cardIndex) ==
    [i \in 1..(Len(hand) - 1) |-> IF i < cardIndex THEN hand[i] ELSE hand[i + 1]]

\* the number of tricks of a hand, line 622
HandTricks == 13

\* the leader of the next trick, lines 613 and 660: the pointer is set to the
\* winner and then advanced by the "advance to next player" branch
nextLeader(winnerIndex) == (winnerIndex + 1) % 4

\* the validation of lines 566-593: the error emitted, "" when the play is accepted
playCardError(userId, card) ==
    IF ~found \/ play = None \/ hands = None \/ bidding = None THEN "Invalid game state"
    ELSE IF findIndex(players, userId) = 0 - 1 THEN "Player not found in game"
    ELSE IF findIndex(players, userId) # Get(play).currentPlayerIndex THEN "Not your turn"
    ELSE IF cardIndexOf(Get(hands)[findIndex(players, userId)], card) = 0 THEN "Card not in hand"
    ELSE ""

\* mutant: the played card stays in the hand
removeFromHandKeep(hs, playerIndex, card) == hs

\* lines 595-597
removeFromHand(hs, playerIndex, card) ==
    [hs EXCEPT ![playerIndex] = splice(@, cardIndexOf(@, card))]

\* mutant: the history keeps only the trick just resolved
resolveTrickOverwrite(p, trick1) ==
    LET winnerIndex == determineTrickWinner(trick1)
    IN  [p EXCEPT !.tricks = <<[cards |-> trick1, winnerIndex |-> winnerIndex]>>,
                  !.currentTrick = <<>>,
                  !.trickNumber = @ + 1,
                  !.currentPlayerIndex = winnerIndex]

\* the play state after a trick's fourth card, lines 600-613
resolveTrick(p, trick1) ==
    LET winnerIndex == determineTrickWinner(trick1)
    IN  [p EXCEPT !.tricks = Append(@, [cards |-> trick1, winnerIndex |-> winnerIndex]),
                  !.currentTrick = <<>>,
                  !.trickNumber = @ + 1,
                  !.currentPlayerIndex = winnerIndex]

\* the block run when trickNumber reaches 13, lines 622-657
scoreHand(handSummary) ==
    LET t == runningTotals(team1TotalScore, team2TotalScore, team1Bags, team2Bags, handSummary)
    IN  /\ team1TotalScore' = t.team1TotalScore
        /\ team2TotalScore' = t.team2TotalScore
        /\ team1Bags' = t.team1Bags
        /\ team2Bags' = t.team2Bags
        /\ IF isGameOver(t)
           THEN /\ status' = "COMPLETED"
                /\ gameOver' = Some([team1Score |-> t.team1TotalScore,
                                     team2Score |-> t.team2TotalScore,
                                     winningTeam |-> winningTeamOf(t)])
           ELSE UNCHANGED <<status, gameOver>>

\* mutant: the turn passes to the partner of the seat that played
nextPlayerAcross(currentPlayerIndex) == (currentPlayerIndex + 2) % 4

\* the advance within a trick, line 664
nextPlayer(currentPlayerIndex) == (currentPlayerIndex + 1) % 4

play_card(userId, card) ==
    IF playCardError(userId, card) # ""
    THEN UNCHANGED vars
    ELSE
    LET p == Get(play)
        playerIndex == findIndex(players, userId)
        trick1 == Append(p.currentTrick,
                         [suit |-> card.suit, rank |-> card.rank, playerIndex |-> playerIndex])
    IN  /\ hands' = Some(removeFromHand(Get(hands), playerIndex, card))
        /\ UNCHANGED <<players, isBotGame, dealerIndex, bidding, debits, botMoves, tableVars, arg, ret>>
        /\ IF Len(trick1) = 4
           THEN LET p1 == resolveTrick(p, trick1)
                IN  IF p1.trickNumber = HandTricks
                    THEN /\ play' = Some(p1)
                         /\ scoreHand(calculatePartnersHandScore(Get(bidding), p1))
                    ELSE /\ play' = Some([p1 EXCEPT !.currentPlayerIndex = nextLeader(p1.currentPlayerIndex)])
                         /\ UNCHANGED <<status, team1TotalScore, team2TotalScore,
                                        team1Bags, team2Bags, gameOver>>
           ELSE /\ play' = Some([p EXCEPT !.currentTrick = trick1,
                                          !.currentPlayerIndex = nextPlayer(p.currentPlayerIndex)])
                /\ UNCHANGED <<status, team1TotalScore, team2TotalScore,
                               team1Bags, team2Bags, gameOver>>

-----------------------------------------------------------------------------
(* The game specification: a seated table, then start, bids and plays *)

Users == {"u0", "u1", "u2", "u3"}
Stranger == "x"

\* Tables that join and invite-bot requests produce from a created game.
Rosters ==
    { (0 :> Human("u0")) @@ (1 :> Human("u1")) @@ (2 :> Bot("bot-2")) @@ (3 :> Bot("bot-3")),
      (0 :> Human("u0")) @@ (1 :> Human("u1")) @@ (2 :> Human("u2")) @@ (3 :> None) }

BidValues == {0, 3}

seatedIds == {Get(players[i]).id : i \in {j \in Seats : IsSome(players[j])}}

RequestUsers == seatedIds \cup {Stranger}

firstCards(hand, n) == {hand[i] : i \in 1..(IF Len(hand) < n THEN Len(hand) ELSE n)}

cardsPlayed(p) == 4 * Len(p.tricks) + Len(p.currentTrick)

\* The cards play_card requests name: one of the first cards of the hand of the
\* seat on turn, or the first card of the next seat's hand.
RequestCards ==
    IF play = None \/ hands = None THEN {createDeck[1]}
    ELSE LET p == Get(play)
             width == IF cardsPlayed(p) < FreePlays THEN MaxPick ELSE 1
         IN  firstCards(Get(hands)[p.currentPlayerIndex], width)
                \cup firstCards(Get(hands)[(p.currentPlayerIndex + 1) % 4], 1)
                \cup (IF p.trickNumber >= HandTricks THEN {createDeck[1]} ELSE {})

Init ==
    /\ status = "WAITING"
    /\ players \in Rosters
    /\ isBotGame = someBot(players)
    /\ dealerIndex = None
    /\ hands = None
    /\ bidding = None
    /\ play = None
    /\ team1TotalScore = 0
    /\ team2TotalScore = 0
    /\ team1Bags = 0
    /\ team2Bags = 0
    /\ gameOver = None
    /\ debits = [u \in Users |-> 0]
    /\ botMoves = 0
    /\ gameMode = "PARTNERS"
    /\ maxPoints = 500
    /\ minPoints = 0 - 150
    /\ spectators = <<>>
    /\ joins = {}
    /\ starts = {}
    /\ games = {GameId}
    /\ arg = None
    /\ ret = None

\* The random draws and the failing debit matter only to a request that passes
\* the status guard.
StartInputs ==
    IF status = "WAITING"
    THEN Seats \X (0..(MaxShuffle - 1)) \X ({None} \cup {Some(i) : i \in Seats})
    ELSE {<<0, 0, None>>}

Start ==
    /\ \A u \in Users : debits[u] < MaxDebits
    /\ \E in \in StartInputs : start(in[1], in[2], in[3])

\* A request that the guards drop or reject has the same effect whatever bid
\* or card it names: one of each requester is enough.
BidRequests ==
    {rq \in RequestUsers \X BidValues : ~bidDropped(rq[1]) \/ rq[2] = 0}

PlayRequests ==
    {rq \in RequestUsers \X RequestCards :
        \/ play # None /\ findIndex(players, rq[1]) = Get(play).currentPlayerIndex
        \/ rq[2] = CHOOSE c \in RequestCards : TRUE}

MakeBid == \E rq \in BidRequests : make_bid(rq[1], rq[2])

PlayCard == \E rq \in PlayRequests : play_card(rq[1], rq[2])

Next == Start \/ MakeBid \/ PlayCard

Spec == Init /\ [][Next]_vars

-----------------------------------------------------------------------------
(* Function harnesses: the inputs are drawn in the initial state, the one  *)
(* action applies the function.                                            *)

idleGame ==
    /\ players = (0 :> Human("u0")) @@ (1 :> Human("u1")) @@ (2 :> Bot("bot-2")) @@ (3 :> Bot("bot-3"))
    /\ isBotGame = TRUE
    /\ dealerIndex = None
    /\ hands = None
    /\ bidding = None
    /\ play = None
    /\ gameOver = None
    /\ debits = [u \in Users |-> 0]
    /\ botMoves = 0
    /\ spectators = <<>>
    /\ joins = {}
    /\ starts = {}
    /\ games = {GameId}

\* determineTrickWinner on a trick of 4 distinct cards played clockwise from a leader
TrickRanks == {"2", "10", "A"}
TrickCards == {[suit |-> SUITS[i], rank |-> r] : i \in 1..Len(SUITS), r \in TrickRanks}

tagged(cs, leader) ==
    [i \in 1..4 |-> [suit |-> cs[i].suit, rank |-> cs[i].rank, playerIndex |-> (leader + i - 1) % 4]]

TrickInputs ==
    {tagged(cs, leader) :
        cs \in {q \in TrickCards \X TrickCards \X TrickCards \X TrickCards :
                   Cardinality({q[1], q[2], q[3], q[4]}) = 4},
        leader \in Seats}

InitTrick ==
    /\ idleGame
    /\ status = "BIDDING"
    /\ team1TotalScore = 0 /\ team2TotalScore = 0 /\ team1Bags = 0 /\ team2Bags = 0
    /\ gameMode = "PARTNERS" /\ maxPoints = 500 /\ minPoints = 0 - 150
    /\ arg \in {Some(t) : t \in TrickInputs}
    /\ ret = None

ResolveTrick ==
    /\ ret = None
    /\ ret' = Some(determineTrickWinner(Get(arg)))
    /\ UNCHANGED <<gameVars, debits, botMoves, tableVars, arg>>

NextTrick == ResolveTrick

SpecTrick == InitTrick /\ [][NextTrick]_vars

\* the scoring block on four bids, a split of the 13 tricks and the totals
\* carried in from earlier hands
ScoreBids == {0 - 1, 0, 1, 3, 4, 8}
\* The two teams are scored by the same code on their own bids and tricks:
\* every pair of partner bids is drawn for both teams, seats 1 and 3 bidding
\* what seats 2 and 0 bid.
ScoreBidInputs == {b \in [Seats -> ScoreBids] : b[1] = b[2] /\ b[3] = b[0]}
TrickSplits == {t \in [Seats -> 0..HandTricks] : t[0] + t[1] + t[2] + t[3] = HandTricks}
FirstHandBids == [i \in Seats |-> Some(<<1, 3, 4, 3>>[i + 1])]
FirstHandTricks == [i \in Seats |-> <<6, 0, 7, 0>>[i + 1]]

\* the totals a hand starts from: those of a new game, and those left by a
\* first hand in which team 1 bid 5 and took all 13 tricks
PriorTotals ==
    { [team1TotalScore |-> 0, team2TotalScore |-> 0, team1Bags |-> 0, team2Bags |-> 0],
      runningTotals(0, 0, 0, 0, partnersHandScore(FirstHandBids, FirstHandTricks)) }

\* maxPoints / minPoints of the create request
GameSettings ==
    { [maxPoints |-> 500, minPoints |-> 0 - 150],
      [maxPoints |-> 100, minPoints |-> 0 - 100] }

InitScore ==
    /\ idleGame
    /\ status = "BIDDING"
    /\ gameMode = "PARTNERS"
    /\ \E g \in GameSettings : maxPoints = g.maxPoints /\ minPoints = g.minPoints
    /\ \E prior \in PriorTotals :
          /\ team1TotalScore = prior.team1TotalScore
          /\ team2TotalScore = prior.team2TotalScore
          /\ team1Bags = prior.team1Bags
          /\ team2Bags = prior.team2Bags
          /\ arg \in {Some([bids |-> [i \in Seats |-> Some(b[i])], tpp |-> t, prior |-> prior]) :
                         b \in ScoreBidInputs, t \in TrickSplits}
    /\ ret = None

ScoreHand ==
    /\ ret = None
    /\ ret' = Some(partnersHandScore(Get(arg).bids, Get(arg).tpp))
    /\ scoreHand(partnersHandScore(Get(arg).bids, Get(arg).tpp))
    /\ UNCHANGED <<players, isBotGame, dealerIndex, hands, bidding, play, debits, botMoves, tableVars, arg>>

NextScore == ScoreHand

SpecScore == InitScore /\ [][NextScore]_vars

\* the scoring block in a game created with gameMode SOLO: four numeric bids
\* drawn seat by seat, a split of the 13 tricks, the totals of a new game
InitSolo ==
    /\ idleGame
    /\ status = "BIDDING"
    /\ gameMode = "SOLO"
    /\ maxPoints = 500 /\ minPoints = 0 - 150
    /\ team1TotalScore = 0 /\ team2TotalScore = 0 /\ team1Bags = 0 /\ team2Bags = 0
    /\ arg \in {Some([bids |-> [i \in Seats |-> Some(b[i])], tpp |-> t]) :
                   b \in [Seats -> {0, 1, 4}], t \in TrickSplits}
    /\ ret = None

SpecSolo == InitSolo /\ [][ScoreHand]_vars

-----------------------------------------------------------------------------
(* The roster routes: join (194-243), invite-bot (246-273),                *)
(* invite-bot-midgame (276-299), leave (328-345), remove-bot (450-462),    *)
(* remove-bot-midgame (465-480)                                            *)

\* Pending join requests are at most MaxJoins at a time.
MaxJoins == 1

\* game.players[0]?.id : undefined when seat 0 is empty
hostId(ps) == IF ps[0] = None THEN None ELSE Some(Get(ps[0]).id)

\* seatIndex < 0 || seatIndex > 3
outOfRange(seatIndex) == seatIndex < 0 \/ seatIndex > 3

\* game.players[seatIndex] is truthy
occupied(ps, seatIndex) == seatIndex \in Seats /\ ps[seatIndex] # None

holdsBot(ps, seatIndex) == occupied(ps, seatIndex) /\ Get(ps[seatIndex]).type = "bot"

\* the id of the bot created for a seat (bot-<uuid> in the source)
botId(seatIndex) == <<"bot-0", "bot-1", "bot-2", "bot-3">>[seatIndex + 1]

\* the partner check of lines 285-287 and 472-474
notPartner(ps, seatIndex, requesterId) ==
    \/ ps[(seatIndex + 2) % 4] = None
    \/ Some(Get(ps[(seatIndex + 2) % 4]).id) # requesterId

\* What the invite-bot route answers.
inviteBotReply(seatIndex, requesterId) ==
    IF ~found THEN "Game not found"
    ELSE IF status # "WAITING" THEN "Game already started"
    ELSE IF hostId(players) # requesterId THEN "Only host can invite bots"
    ELSE IF outOfRange(seatIndex) \/ occupied(players, seatIndex) THEN "Invalid seat"
    ELSE "ok"

invite_bot(seatIndex, requesterId) ==
    IF inviteBotReply(seatIndex, requesterId) # "ok"
    THEN UNCHANGED vars
    ELSE /\ players' = [players EXCEPT ![seatIndex] = Bot(botId(seatIndex))]
         /\ isBotGame' = someBot(players')
         /\ UNCHANGED <<status, dealerIndex, hands, bidding, play, team1TotalScore,
                        team2TotalScore, team1Bags, team2Bags, gameOver, debits,
                        botMoves, tableVars, arg, ret>>

inviteBotMidgameReply(seatIndex, requesterId) ==
    IF ~found THEN "Game not found"
    ELSE IF status = "WAITING" THEN "Game has not started"
    ELSE IF outOfRange(seatIndex) \/ occupied(players, seatIndex) THEN "Seat is not empty"
    ELSE IF notPartner(players, seatIndex, requesterId)
         THEN "Only the partner can invite a bot for this seat"
    ELSE "ok"

invite_bot_midgame(seatIndex, requesterId) ==
    IF inviteBotMidgameReply(seatIndex, requesterId) # "ok"
    THEN UNCHANGED vars
    ELSE /\ players' = [players EXCEPT ![seatIndex] = Bot(botId(seatIndex))]
         /\ UNCHANGED <<status, isBotGame, dealerIndex, hands, bidding, play,
                        team1TotalScore, team2TotalScore, team1Bags, team2Bags,
                        gameOver, debits, botMoves, tableVars, arg, ret>>

removeBotReply(seatIndex, requesterId) ==
    IF ~found THEN "Game not found"
    ELSE IF status # "WAITING" THEN "Game already started"
    ELSE IF hostId(players) # requesterId THEN "Only host can remove bots"
    ELSE IF outOfRange(seatIndex) \/ ~holdsBot(players, seatIndex)
         THEN "Invalid seat or not a bot"
    ELSE "ok"

remove_bot(seatIndex, requesterId) ==
    IF removeBotReply(seatIndex, requesterId) # "ok"
    THEN UNCHANGED vars
    ELSE /\ players' = [players EXCEPT ![seatIndex] = None]
         /\ UNCHANGED <<status, isBotGame, dealerIndex, hands, bidding, play,
                        team1TotalScore, team2TotalScore, team1Bags, team2Bags,
                        gameOver, debits, botMoves, tableVars, arg, ret>>

removeBotMidgameReply(seatIndex, requesterId) ==
    IF ~found THEN "Game not found"
    ELSE IF status = "WAITING" THEN "Game has not started"
    ELSE IF outOfRange(seatIndex) \/ ~holdsBot(players, seatIndex)
         THEN "Invalid seat or not a bot"
    ELSE IF notPartner(players, seatIndex, requesterId)
         THEN "Only the partner can remove a bot for this seat"
    ELSE "ok"

remove_bot_midgame(seatIndex, requesterId) ==
    IF removeBotMidgameReply(seatIndex, requesterId) # "ok"
    THEN UNCHANGED vars
    ELSE /\ players' = [players EXCEPT ![seatIndex] = None]
         /\ UNCHANGED <<status, isBotGame, dealerIndex, hands, bidding, play,
                        team1TotalScore, team2TotalScore, team1Bags, team2Bags,
                        gameOver, debits, botMoves, tableVars, arg, ret>>

\* What the spectate route answers, lines 302-325; userId is req.body.id
\* (None: absent).
spectateReply(userId) ==
    IF ~found THEN "Game not found"
    ELSE IF userId = None THEN "Missing user id"
    ELSE IF \E i \in 1..Len(spectators) : spectators[i] = Get(userId) THEN "Already spectating"
    ELSE IF \E i \in Seats : players[i] # None /\ Get(players[i]).id = Get(userId)
         THEN "Already joined as player"
    ELSE "ok"

spectate(userId) ==
    IF spectateReply(userId) # "ok"
    THEN UNCHANGED vars
    ELSE /\ spectators' = Append(spectators, Get(userId))
         /\ UNCHANGED <<gameVars, debits, botMoves, gameMode, maxPoints, minPoints, joins,
                        games, starts, arg, ret>>

\* spectators.splice(specIdx, 1), lines 338-341
withoutSpectator(specs, userId) == SelectSeq(specs, LAMBDA x : x # userId)

\* mutant: a leave takes the dealt hands away
leaveDroppingHands(userId) ==
    /\ found
    /\ players' = [i \in Seats |->
                      IF i = findIndex(players, userId) THEN None ELSE players[i]]
    /\ spectators' = withoutSpectator(spectators, userId)
    /\ hands' = None
    /\ UNCHANGED <<status, isBotGame, dealerIndex, bidding, play,
                   team1TotalScore, team2TotalScore, team1Bags, team2Bags, gameOver,
                   debits, botMoves, gameMode, maxPoints, minPoints, joins, starts, games,
                   arg, ret>>

\* the leave route, lines 328-345
leave(userId) ==
    /\ found
    /\ players' = [i \in Seats |->
                      IF i = findIndex(players, userId) THEN None ELSE players[i]]
    /\ spectators' = withoutSpectator(spectators, userId)
    /\ UNCHANGED <<status, isBotGame, dealerIndex, hands, bidding, play,
                   team1TotalScore, team2TotalScore, team1Bags, team2Bags, gameOver,
                   debits, botMoves, gameMode, maxPoints, minPoints, joins, games, starts, arg, ret>>

\* the leave_game socket handler, lines 678-720; socketUserId is the user the
\* socket authenticated as (None: not authenticated)
leave_game(socketUserId, userId) ==
    IF socketUserId = None \/ Get(socketUserId) # userId \/ ~found
    THEN UNCHANGED vars
    ELSE /\ players' = [i \in Seats |->
                           IF i = findIndex(players, userId) THEN None ELSE players[i]]
         /\ games' = IF \E i \in Seats : players'[i] # None /\ Get(players'[i]).type = "human"
                     THEN games
                     ELSE games \ {GameId}
         /\ UNCHANGED <<status, isBotGame, dealerIndex, hands, bidding, play,
                        team1TotalScore, team2TotalScore, team1Bags, team2Bags, gameOver,
                        debits, botMoves, gameMode, maxPoints, minPoints, spectators, joins,
                        starts, arg, ret>>

\* join, up to the awaited balance lookup (lines 194-216): the duplicate check
\* passes and the request waits for prisma.user.findUnique
join_request(playerId, requestedSeat) ==
    IF ~found \/ \E i \in Seats : players[i] # None /\ Get(players[i]).id = playerId
    THEN UNCHANGED vars
    ELSE /\ joins' = joins \cup {[id |-> playerId, seat |-> requestedSeat]}
         /\ UNCHANGED <<gameVars, debits, botMoves, gameMode, maxPoints, minPoints, spectators,
                        games, starts, arg, ret>>

\* mutant: the requested seat is taken over when it is occupied
seatPlayerOver(ps, requestedSeat, playerId) ==
    IF requestedSeat # None /\ Get(requestedSeat) >= 0 /\ Get(requestedSeat) < 4
    THEN [ps EXCEPT ![Get(requestedSeat)] = Human(playerId)]
    ELSE ps

\* lines 227-238: the players array after the seat checks
seatPlayer(ps, requestedSeat, playerId) ==
    IF requestedSeat # None /\ Get(requestedSeat) >= 0 /\ Get(requestedSeat) < 4
    THEN (IF ps[Get(requestedSeat)] # None THEN ps
          ELSE [ps EXCEPT ![Get(requestedSeat)] = Human(playerId)])
    ELSE ps

\* What the join route answers once the lookup has returned with outcome
\* lookup ("ok", "missing", "poor" or "throw").
joinReply(j, lookup) ==
    IF lookup = "missing" THEN "User not found"
    ELSE IF lookup = "poor" THEN "Not enough coins to join this game"
    ELSE IF lookup = "throw" THEN "Failed to check coin balance"
    ELSE IF j.seat # None /\ Get(j.seat) >= 0 /\ Get(j.seat) < 4
         THEN (IF players[Get(j.seat)] # None THEN "Seat is already taken" ELSE "ok")
    ELSE "Invalid seat selection"

\* join, from the return of the lookup (lines 217-242)
join_resume(j, lookup) ==
    /\ j \in joins
    /\ joins' = joins \ {j}
    /\ players' = IF lookup = "ok" THEN seatPlayer(players, j.seat, j.id) ELSE players
    /\ UNCHANGED <<status, isBotGame, dealerIndex, hands, bidding, play,
                   team1TotalScore, team2TotalScore, team1Bags, team2Bags, gameOver,
                   debits, botMoves, gameMode, maxPoints, minPoints, spectators, games,
                   starts, arg, ret>>

-----------------------------------------------------------------------------
(* The table before and after start: a created game and the roster requests *)

Creator == "u0"
Joiners == {"u0", "u1"}

\* req.body.seat : absent, or a number (below, in and above the range of seats)
JoinSeats == {None} \cup {Some(i) : i \in {0 - 1, 0, 2, 4}}

SeatIndexes == (0 - 1)..4

\* requesterId : absent, or a user id
Requesters == {None} \cup {Some(u) : u \in Joiners}

Lookups == {"ok", "missing", "poor", "throw"}

\* the game the create route stores, lines 148-171
InitRoster ==
    /\ status = "WAITING"
    /\ players = [i \in Seats |-> IF i = 0 THEN Human(Creator) ELSE None]
    /\ isBotGame = FALSE
    /\ dealerIndex = None
    /\ hands = None
    /\ bidding = None
    /\ play = None
    /\ team1TotalScore = 0
    /\ team2TotalScore = 0
    /\ team1Bags = 0
    /\ team2Bags = 0
    /\ gameOver = None
    /\ debits = [u \in Users |-> 0]
    /\ botMoves = 0
    /\ gameMode = "PARTNERS"
    /\ maxPoints = 500
    /\ minPoints = 0 - 150
    /\ spectators = <<>>
    /\ joins = {}
    /\ starts = {}
    /\ games = {GameId}
    /\ arg = None
    /\ ret = None

JoinRequest ==
    /\ Cardinality(joins) < MaxJoins
    /\ \E u \in Joiners, seat \in JoinSeats : join_request(u, seat)

JoinResume == \E j \in joins, lookup \in Lookups : join_resume(j, lookup)

InviteBot == \E seatIndex \in SeatIndexes, r \in Requesters : invite_bot(seatIndex, r)

InviteBotMidgame ==
    \E seatIndex \in SeatIndexes, r \in Requesters : invite_bot_midgame(seatIndex, r)

RemoveBot == \E seatIndex \in SeatIndexes, r \in Requesters : remove_bot(seatIndex, r)

RemoveBotMidgame ==
    \E seatIndex \in SeatIndexes, r \in Requesters : remove_bot_midgame(seatIndex, r)

Leave == \E u \in Joiners : leave(u)

LeaveGame == \E s \in Requesters, u \in Joiners : leave_game(s, u)

Spectate == \E u \in Requesters : spectate(u)

\* start with every debit succeeding, the deck left in order and the first
\* occupied seat drawn as dealer
StartTable == start(0, 0, None)

NextRoster ==
    \/ JoinRequest \/ JoinResume \/ InviteBot \/ InviteBotMidgame
    \/ RemoveBot \/ RemoveBotMidgame \/ Leave \/ LeaveGame \/ Spectate \/ StartTable

SpecRoster == InitRoster /\ [][NextRoster]_vars

\* Join requests in flight together: up to MaxRace requests wait on the
\* balance lookup at a time, each naming one of the seats a new game has free.
MaxRace == 2

JoinRace ==
    /\ Cardinality(joins) < MaxRace
    /\ \E u \in Joiners, seat \in {Some(i) : i \in 1..3} : join_request(u, seat)

SpecRace == InitRoster /\ [][JoinRace \/ JoinResume \/ Leave]_vars

-----------------------------------------------------------------------------
(* Roster requests while a hand is bid and played *)

\* The hand is played up to MaxMidPlays cards.
MaxMidPlays == 5

\* start with the second occupied seat drawn as dealer and the deck in order
MidStart == status = "WAITING" /\ start(1, 0, None)

MidBid == \E u \in seatedIds : ~bidDropped(u) /\ make_bid(u, 3)

MidPlay ==
    /\ play # None /\ hands # None
    /\ cardsPlayed(Get(play)) < MaxMidPlays
    /\ \E u \in seatedIds :
          /\ findIndex(players, u) = Get(play).currentPlayerIndex
          /\ Len(Get(hands)[findIndex(players, u)]) > 0
          /\ play_card(u, Get(hands)[findIndex(players, u)][1])

\* the roster requests the routes accept after start
MidRoster ==
    /\ status # "WAITING"
    /\ \/ JoinRequest \/ JoinResume \/ InviteBotMidgame \/ RemoveBotMidgame
       \/ Leave \/ LeaveGame

SpecMidgame == Init /\ [][MidStart \/ MidBid \/ MidPlay \/ MidRoster]_vars

-----------------------------------------------------------------------------
(* One hand at a table of four humans whose seat on turn always acts *)

InitLive ==
    /\ status = "WAITING"
    /\ players = (0 :> Human("u0")) @@ (1 :> Human("u1")) @@ (2 :> Human("u2")) @@ (3 :> Human("u3"))
    /\ isBotGame = FALSE
    /\ dealerIndex = None
    /\ hands = None
    /\ bidding = None
    /\ play = None
    /\ team1TotalScore = 0
    /\ team2TotalScore = 0
    /\ team1Bags = 0
    /\ team2Bags = 0
    /\ gameOver = None
    /\ debits = [u \in Users |-> 0]
    /\ botMoves = 0
    /\ gameMode = "PARTNERS"
    /\ maxPoints = 500
    /\ minPoints = 0 - 150
    /\ spectators = <<>>
    /\ joins = {}
    /\ starts = {}
    /\ games = {GameId}
    /\ arg = None
    /\ ret = None

\* start with every debit succeeding and the deck left in order; the dealer
\* is any of the four seats
StartLive == \E r \in Seats : status = "WAITING" /\ start(r, 0, None)

\* the seat whose turn it is to bid submits a bid
BidOnTurn ==
    \E u \in Users, bid \in BidValues : ~bidDropped(u) /\ make_bid(u, bid)

\* the seat whose turn it is to play submits the first card of its hand
PlayOnTurn ==
    \E u \in Users :
        /\ play # None /\ hands # None
        /\ findIndex(players, u) = Get(play).currentPlayerIndex
        /\ Len(Get(hands)[findIndex(players, u)]) > 0
        /\ play_card(u, Get(hands)[findIndex(players, u)][1])

\* what a PlayOnTurn step does to the hands: the first card of the hand of the
\* seat on turn leaves it (lines 595-596)
CardLeavesHand ==
    /\ play # None /\ hands # None
    /\ Len(Get(hands)[Get(play).currentPlayerIndex]) > 0
    /\ hands' = Some(removeFromHand(Get(hands), Get(play).currentPlayerIndex,
                                    Get(hands)[Get(play).currentPlayerIndex][1]))

\* The seat on turn always eventually acts: a bid that is due is eventually
\* submitted, and a card that is due is eventually played.
SpecLive ==
    InitLive /\ [][StartLive \/ BidOnTurn \/ PlayOnTurn]_vars /\ WF_vars(BidOnTurn) /\ WF_hands(CardLeavesHand)

-----------------------------------------------------------------------------
(* Start requests in flight together *)

\* Up to MaxStarts start requests are between their guards and their last line.
MaxStarts == 2

StartRosters ==
    { (0 :> Human("u0")) @@ (1 :> Human("u1")) @@ (2 :> Human("u2")) @@ (3 :> Human("u3")),
      (0 :> Human("u0")) @@ (1 :> Human("u1")) @@ (2 :> None) @@ (3 :> None),
      (0 :> Human("u0")) @@ (1 :> Human("u1")) @@ (2 :> Bot("bot-2")) @@ (3 :> Bot("bot-3")) }

InitStartRace ==
    /\ status = "WAITING"
    /\ players \in StartRosters
    /\ isBotGame = FALSE
    /\ dealerIndex = None
    /\ hands = None
    /\ bidding = None
    /\ play = None
    /\ team1TotalScore = 0
    /\ team2TotalScore = 0
    /\ team1Bags = 0
    /\ team2Bags = 0
    /\ gameOver = None
    /\ debits = [u \in Users |-> 0]
    /\ botMoves = 0
    /\ gameMode = "PARTNERS"
    /\ maxPoints = 500
    /\ minPoints = 0 - 150
    /\ spectators = <<>>
    /\ joins = {}
    /\ starts = {}
    /\ games = {GameId}
    /\ arg = None
    /\ ret = None

StartRequest ==
    /\ Cardinality(starts) < MaxStarts
    /\ \A u \in Users : debits[u] < MaxDebits
    /\ \E id \in 1..MaxStarts, r \in Seats :
          /\ \A s \in starts : s.id # id
          /\ start_request(id, r, 0)

StartDebit == \E s \in starts, throws \in BOOLEAN : start_debit(s, throws)

StartFinish == \E s \in starts, r \in Seats : start_finish(s, r, 0)

SpecStartRace == InitStartRace /\ [][StartRequest \/ StartDebit \/ StartFinish]_vars

-----------------------------------------------------------------------------
(* assignDealer on every table of empty, human and bot seats *)

DealerTables ==
    [Seats -> {None, Human("u0"), Bot("bot-0")}]

DealerInputs ==
    {[players |-> ps, previousDealerIndex |-> d, r |-> r] :
        ps \in DealerTables, d \in {None} \cup {Some(i) : i \in Seats}, r \in Seats}

InitDealer ==
    /\ idleGame
    /\ status = "WAITING"
    /\ team1TotalScore = 0 /\ team2TotalScore = 0 /\ team1Bags = 0 /\ team2Bags = 0
    /\ gameMode = "PARTNERS" /\ maxPoints = 500 /\ minPoints = 0 - 150
    /\ arg \in {Some(in) : in \in DealerInputs}
    /\ ret = None

AssignDealer ==
    /\ ret = None
    /\ ret' = Some(assignDealer(Get(arg).players, Get(arg).previousDealerIndex, Get(arg).r))
    /\ UNCHANGED <<gameVars, debits, botMoves, tableVars, arg>>

NextDealer == AssignDealer

SpecDealer == InitDealer /\ [][NextDealer]_vars

-----------------------------------------------------------------------------
(* dealCards for every dealer and a family of shuffled decks *)

DealShuffles == 0..25

DealInputs == {[dealerIndex |-> d, k |-> k] : d \in Seats, k \in DealShuffles}

InitDeal ==
    /\ idleGame
    /\ status = "WAITING"
    /\ team1TotalScore = 0 /\ team2TotalScore = 0 /\ team1Bags = 0 /\ team2Bags = 0
    /\ gameMode = "PARTNERS" /\ maxPoints = 500 /\ minPoints = 0 - 150
    /\ arg \in {Some(in) : in \in DealInputs}
    /\ ret = None

DealCards ==
    /\ ret = None
    /\ ret' = Some(dealCards(Get(arg).dealerIndex, Get(arg).k))
    /\ UNCHANGED <<gameVars, debits, botMoves, tableVars, arg>>

NextDeal == DealCards

SpecDeal == InitDeal /\ [][NextDeal]_vars

-----------------------------------------------------------------------------
(* The playable cards of the table client, GameTable.tsx lines 79-117 *)

\* the suit literal the client compares with (the character U+2660)
SpadeSymbol == "U+2660"

\* trick[0]?.suit || null
getLeadSuit(trick) ==
    IF Len(trick) = 0 \/ trick[1].suit = "" THEN None ELSE Some(trick[1].suit)

\* game.completedTricks?.some(trick => ... trick.cards.some(card => card.suit === U+2660))
hasSpadeBeenPlayed(game) ==
    \E i \in 1..Len(game.completedTricks) :
        \E j \in 1..Len(game.completedTricks[i].cards) :
            game.completedTricks[i].cards[j].suit = SpadeSymbol

canLeadSpades(game, hand) ==
    \/ hasSpadeBeenPlayed(game)
    \/ \A i \in 1..Len(hand) : hand[i].suit = SpadeSymbol

\* mutant: a hand without a card of the suit led has no playable card
getPlayableCardsStrict(game, hand, isLeadingTrick) ==
    IF Len(hand) = 0 THEN <<>>
    ELSE IF isLeadingTrick
    THEN (IF ~canLeadSpades(game, hand)
          THEN LET nonSpades == SelectSeq(hand, LAMBDA card : card.suit # SpadeSymbol)
               IN  IF Len(nonSpades) > 0 THEN nonSpades ELSE hand
          ELSE hand)
    ELSE LET leadSuit == getLeadSuit(game.currentTrick)
         IN  IF leadSuit = None THEN <<>>
             ELSE SelectSeq(hand, LAMBDA card : card.suit = Get(leadSuit))

getPlayableCards(game, hand, isLeadingTrick) ==
    IF Len(hand) = 0 THEN <<>>
    ELSE IF isLeadingTrick
    THEN (IF ~canLeadSpades(game, hand)
          THEN LET nonSpades == SelectSeq(hand, LAMBDA card : card.suit # SpadeSymbol)
               IN  IF Len(nonSpades) > 0 THEN nonSpades ELSE hand
          ELSE hand)
    ELSE LET leadSuit == getLeadSuit(game.currentTrick)
         IN  IF leadSuit = None THEN <<>>
             ELSE LET suitCards == SelectSeq(hand, LAMBDA card : card.suit = Get(leadSuit))
                  IN  IF Len(suitCards) > 0 THEN suitCards ELSE hand

\* The suits of the cards the function is handed: the letters of the server's
\* deck (SUITS, part_000 line 348), which reach the client unconverted in
\* game_update, or the symbols the client's literals are written in.
SuitAlphabets ==
    { [spade |-> "S", heart |-> "H", diamond |-> "D", club |-> "C"],
      [spade |-> SpadeSymbol, heart |-> "U+2665", diamond |-> "U+2666", club |-> "U+2663"] }

MaxHand == 3

PlayablePool(a) ==
    << [suit |-> a.spade, rank |-> "A"], [suit |-> a.spade, rank |-> "2"],
       [suit |-> a.heart, rank |-> "K"], [suit |-> a.heart, rank |-> "2"],
       [suit |-> a.diamond, rank |-> "3"] >>

PlayableHands(a) ==
    { SelectSeq(PlayablePool(a), LAMBDA c : c \in held) :
        held \in {h \in SUBSET {PlayablePool(a)[i] : i \in 1..5} : Cardinality(h) <= MaxHand} }

\* game.currentTrick: empty, or the card led
PlayableTricks(a) ==
    { <<>>, << [suit |-> a.spade, rank |-> "Q"] >>, << [suit |-> a.heart, rank |-> "5"] >>,
      << [suit |-> a.club, rank |-> "7"] >> }

\* game.completedTricks: empty, as the create route leaves it (part_000 line
\* 159), or one trick, without or with a spade
PlayableCompleted(a) ==
    { <<>>,
      << [cards |-> << [suit |-> a.club, rank |-> "2"], [suit |-> a.club, rank |-> "9"],
                       [suit |-> a.club, rank |-> "J"], [suit |-> a.diamond, rank |-> "4"] >>] >>,
      << [cards |-> << [suit |-> a.club, rank |-> "2"], [suit |-> a.club, rank |-> "9"],
                       [suit |-> a.spade, rank |-> "4"], [suit |-> a.club, rank |-> "J"] >>] >> }

PlayableInputs ==
    { [game |-> [currentTrick |-> t, completedTricks |-> done], hand |-> h] :
        <<t, done, h>> \in UNION { PlayableTricks(a) \X PlayableCompleted(a) \X PlayableHands(a) :
                                    a \in SuitAlphabets } }

InitPlayable ==
    /\ idleGame
    /\ status = "WAITING"
    /\ team1TotalScore = 0 /\ team2TotalScore = 0 /\ team1Bags = 0 /\ team2Bags = 0
    /\ gameMode = "PARTNERS" /\ maxPoints = 500 /\ minPoints = 0 - 150
    /\ arg \in {Some(in) : in \in PlayableInputs}
    /\ ret = None

\* renderPlayerHand and handlePlayCard: isLeadingTrick = currentTrick.length === 0
GetPlayableCards ==
    /\ ret = None
    /\ ret' = Some(getPlayableCards(Get(arg).game, Get(arg).hand,
                                    Len(Get(arg).game.currentTrick) = 0))
    /\ UNCHANGED <<gameVars, debits, botMoves, tableVars, arg>>

NextPlayable == GetPlayableCards

SpecPlayable == InitPlayable /\ [][NextPlayable]_vars

-----------------------------------------------------------------------------
(* Properties *)

handCards == IF hands = None THEN 0
             ELSE Len(Get(hands)[0]) + Len(Get(hands)[1]) + Len(Get(hands)[2]) + Len(Get(hands)[3])

face(c) == [suit |-> c.suit, rank |-> c.rank]

cardsInHands == UNION {{face(Get(hands)[s][i]) : i \in 1..Len(Get(hands)[s])} : s \in Seats}

cardsInTricks ==
    IF play = None THEN {}
    ELSE UNION {{face(Get(play).tricks[n].cards[i]) : i \in 1..Len(Get(play).tricks[n].cards)} :
                    n \in 1..Len(Get(play).tricks)}

cardsInCurrentTrick ==
    IF play = None THEN {}
    ELSE {face(Get(play).currentTrick[i]) : i \in 1..Len(Get(play).currentTrick)}

\* C1: from the deal on, the cards left in the four hands, plus 4 per completed
\* trick, plus the cards of the current trick, are 52, and they are 52 different
\* cards (no card is in two places).
C1_CardConservation ==
    hands # None =>
        /\ handCards + (IF play = None THEN 0 ELSE cardsPlayed(Get(play))) = 52
        /\ Cardinality(cardsInHands \cup cardsInTricks \cup cardsInCurrentTrick) = 52
        /\ play # None => \A n \in 1..Len(Get(play).tricks) : Len(Get(play).tricks[n].cards) = 4

\* a hand in progress: a trick is complete and another one is under way
C1_Witness ==
    /\ play # None
    /\ Len(Get(play).tricks) >= 1
    /\ Len(Get(play).currentTrick) >= 1

\* C2: right after the fourth card of a trick, with fewer than 13 tricks
\* complete, the seat on turn is the seat that won that trick.
C2_WinnerLeadsNextTrick ==
    (/\ play # None
     /\ Len(Get(play).currentTrick) = 0
     /\ Get(play).trickNumber > 0
     /\ Get(play).trickNumber < 13)
    => Get(play).currentPlayerIndex = Get(play).tricks[Len(Get(play).tricks)].winnerIndex

spadesBroken(p) ==
    \E n \in 1..Len(p.tricks) : \E i \in 1..Len(p.tricks[n].cards) : p.tricks[n].cards[i].suit = "S"

\* the card is in the hand and not a legal play: off suit while the hand holds
\* the led suit, or a spade led while spades are unbroken and the hand holds a
\* non-spade
illegalPlay(hand, card, p) ==
    /\ cardIndexOf(hand, card) # 0
    /\ IF Len(p.currentTrick) > 0
       THEN /\ card.suit # p.currentTrick[1].suit
            /\ \E i \in 1..Len(hand) : hand[i].suit = p.currentTrick[1].suit
       ELSE /\ card.suit = "S"
            /\ ~spadesBroken(p)
            /\ \E i \in 1..Len(hand) : hand[i].suit # "S"

\* C3: a play_card request of the seat on turn for a card of its hand that is
\* not a legal play leaves the hands and the play state (current trick, turn
\* pointer) unchanged.
C3_IllegalCardRejected ==
    [][\A userId \in RequestUsers, card \in RequestCards :
          (/\ play # None /\ hands # None
           /\ findIndex(players, userId) = Get(play).currentPlayerIndex
           /\ illegalPlay(Get(hands)[Get(play).currentPlayerIndex], card, Get(play))
           /\ play_card(userId, card))
          => UNCHANGED <<hands, play>>]_vars

spadesOf(trick) == {i \in 1..Len(trick) : trick[i].suit = "S"}
ledOf(trick) == {i \in 1..Len(trick) : trick[i].suit = trick[1].suit}
highest(trick, among) ==
    CHOOSE i \in among : \A j \in among : getCardValue(trick[j].rank) <= getCardValue(trick[i].rank)

\* C4: the winner of a trick of 4 distinct cards is the seat of the highest
\* spade if a spade is in the trick, and of the highest card of the suit led
\* otherwise; the winning card is a spade or of the suit led.
C4_TrickWinner ==
    ret # None =>
        LET trick == Get(arg)
            best == IF spadesOf(trick) # {} THEN highest(trick, spadesOf(trick))
                    ELSE highest(trick, ledOf(trick))
        IN  /\ Get(ret) = trick[best].playerIndex
            /\ \A i \in 1..Len(trick) :
                  (trick[i].suit # "S" /\ trick[i].suit # trick[1].suit)
                     => Get(ret) # trick[i].playerIndex

\* a low spade played third on a led ace of another suit wins the trick
C4_Witness ==
    /\ ret # None
    /\ Get(arg)[1].suit = "H" /\ Get(arg)[1].rank = "A"
    /\ Get(arg)[3].suit = "S" /\ Get(arg)[3].rank = "2"
    /\ spadesOf(Get(arg)) = {3}
    /\ Get(ret) = Get(arg)[3].playerIndex

numBids(b) == Cardinality({s \in Seats : Get(b).bids[s] # None})

\* C5: the bid that makes all four bids non-null creates the play state with
\* the seat left of the dealer on turn, an empty trick and trickNumber 0; and a
\* play state exists only when all four bids are in.
C5_FourthBidStartsPlay ==
    [][/\ (/\ bidding # None /\ bidding' # None
           /\ numBids(bidding) = 3 /\ numBids(bidding') = 4)
          => /\ play' # None
             /\ Get(play').currentPlayerIndex = (Get(dealerIndex) + 1) % 4
             /\ Get(play').currentTrick = <<>>
             /\ Get(play').trickNumber = 0
       /\ play' # None => (bidding' # None /\ numBids(bidding') = 4)]_vars

\* C6: bidding opens with the seat left of the dealer on turn and no bid; each
\* accepted bid is by the seat on turn, which had not bid, it is the next seat
\* clockwise after the seats that have bid, no other bid changes, and unless it
\* is the fourth bid the turn passes to the next seat clockwise.
C6_BiddingClockwise ==
    [][/\ (bidding = None /\ bidding' # None)
          => /\ Get(bidding').currentBidderIndex = (Get(dealerIndex') + 1) % 4
             /\ numBids(bidding') = 0
       /\ (bidding # None /\ bidding' # bidding)
          => /\ bidding' # None
             /\ dealerIndex' = dealerIndex
             /\ LET s == Get(bidding).currentBidderIndex
                IN  /\ s = (Get(dealerIndex) + 1 + numBids(bidding)) % 4
                    /\ Get(bidding).bids[s] = None
                    /\ Get(bidding').bids[s] # None
                    /\ \A t \in Seats \ {s} : Get(bidding').bids[t] = Get(bidding).bids[t]
                    /\ numBids(bidding') < 4
                          => Get(bidding').currentBidderIndex = (s + 1) % 4]_vars

\* all four seats have bid, the dealer's seat last
C6_Witness ==
    /\ bidding # None
    /\ numBids(bidding) = 4
    /\ Get(bidding).currentBidderIndex = Get(dealerIndex)

turnSeat(b, p) ==
    IF p # None THEN Some(Get(p).currentPlayerIndex)
    ELSE IF b # None THEN Some(Get(b).currentBidderIndex)
    ELSE None

\* C7: a bid or a card play that moves the turn pointer to a seat held by a bot
\* invokes the bot turn trigger once for that seat.
C7_BotTriggeredOnTurn ==
    [][(/\ bidding # None
        /\ (bidding' # bidding \/ play' # play)
        /\ turnSeat(bidding', play') # turnSeat(bidding, play)
        /\ players[Get(turnSeat(bidding', play'))] # None
        /\ Get(players[Get(turnSeat(bidding', play'))]).type = "bot")
       => botMoves' = advanceTurnOrBotMove(players, Get(turnSeat(bidding', play')), botMoves)]_vars

\* the score and bags of a team's hand before any bag penalty
rawTeamScore(bids, tpp, a, b) ==
    LET base == baseContract(teamBid(bids, a, b), tpp[a] + tpp[b])
        na == nilBonus(bids[a], tpp[a])
        nb == nilBonus(bids[b], tpp[b])
    IN  [score |-> base.score + na.score + nb.score, bags |-> base.bags + na.bags + nb.bags]

cumulativeWithPenalty(priorScore, priorBags, raw) ==
    IF priorBags + raw.bags >= 10
    THEN [score |-> priorScore + raw.score - 100, bags |-> priorBags + raw.bags - 10]
    ELSE [score |-> priorScore + raw.score, bags |-> priorBags + raw.bags]

noBlindNil(bids) == \A s \in Seats : bids[s] # Some(0 - 1)

\* C8: after a hand is added to the running totals, a team whose cumulative
\* bag count (the bags carried in plus the bags of the hand) is 10 or more has
\* 100 taken off its cumulative score and 10 off its cumulative bag count.
C8_CumulativeBagPenalty ==
    (ret # None /\ noBlindNil(Get(arg).bids)) =>
        LET in == Get(arg)
            e1 == cumulativeWithPenalty(in.prior.team1TotalScore, in.prior.team1Bags,
                                        rawTeamScore(in.bids, in.tpp, 0, 2))
            e2 == cumulativeWithPenalty(in.prior.team2TotalScore, in.prior.team2Bags,
                                        rawTeamScore(in.bids, in.tpp, 1, 3))
        IN  /\ team1TotalScore = e1.score /\ team1Bags = e1.bags
            /\ team2TotalScore = e2.score /\ team2Bags = e2.bags

nilAsZero(b) == IF b = Some(0) \/ b = Some(0 - 1) THEN 0 ELSE Get(b)

\* C9: the team bid of the base contract is the sum of the partners' bids with
\* a nil bid (0) and a blind-nil bid (-1) each counting 0, so it is never below
\* the bid of a blind-nil bidder's partner.
C9_NilCountsZeroInTeamBid ==
    ret # None =>
        \A pr \in {<<0, 2>>, <<1, 3>>} :
            LET bids == Get(arg).bids
            IN  /\ teamBid(bids, pr[1], pr[2]) = nilAsZero(bids[pr[1]]) + nilAsZero(bids[pr[2]])
                /\ bids[pr[1]] = Some(0 - 1) => teamBid(bids, pr[1], pr[2]) >= nilAsZero(bids[pr[2]])
                /\ bids[pr[2]] = Some(0 - 1) => teamBid(bids, pr[1], pr[2]) >= nilAsZero(bids[pr[1]])

\* C10: for two non-nil partner bids the team's hand score is
\* teamBid*10 + (teamTricks - teamBid) with teamTricks - teamBid bags when the
\* team took at least its bid, and -teamBid*10 with 0 bags otherwise.
C10_BaseContractScore ==
    ret # None =>
        \A pr \in {<<0, 2, "team1Score", "team1Bags">>, <<1, 3, "team2Score", "team2Bags">>} :
            LET in == Get(arg)
                ba == Get(in.bids[pr[1]])
                bb == Get(in.bids[pr[2]])
                tBid == ba + bb
                tTricks == in.tpp[pr[1]] + in.tpp[pr[2]]
            IN  (ba >= 1 /\ bb >= 1) =>
                    IF tTricks >= tBid
                    THEN /\ Get(ret)[pr[3]] = tBid * 10 + (tTricks - tBid)
                         /\ Get(ret)[pr[4]] = tTricks - tBid
                    ELSE /\ Get(ret)[pr[3]] = 0 - tBid * 10
                         /\ Get(ret)[pr[4]] = 0

nilAmount(b) == IF b = Some(0) THEN 100 ELSE IF b = Some(0 - 1) THEN 200 ELSE 0

nilScore(b, tricks) == IF tricks = 0 THEN nilAmount(b) ELSE 0 - nilAmount(b)

nilBags(b, tricks) == IF nilAmount(b) # 0 THEN tricks ELSE 0

\* C11: whatever the outcome of the team contract, the hand result of a team is
\* the contract result plus, for each of its seats that bid nil, +100 if the
\* seat took no trick and otherwise -100 with the seat's tricks added to the
\* team's bags (200 in place of 100 for blind nil), before the hand's bag
\* penalty.
C11_NilBonusPerSeat ==
    ret # None =>
        \A pr \in {<<0, 2, "team1Score", "team1Bags">>, <<1, 3, "team2Score", "team2Bags">>} :
            LET in == Get(arg)
                a == pr[1]
                b == pr[2]
                base == baseContract(teamBid(in.bids, a, b), in.tpp[a] + in.tpp[b])
                total == [score |-> base.score + nilScore(in.bids[a], in.tpp[a])
                                               + nilScore(in.bids[b], in.tpp[b]),
                          bags |-> base.bags + nilBags(in.bids[a], in.tpp[a])
                                             + nilBags(in.bids[b], in.tpp[b])]
            IN  /\ Get(ret)[pr[3]] = bagPenalty(total).score
                /\ Get(ret)[pr[4]] = bagPenalty(total).bags

\* seat 0 bid nil and took 2 tricks while its partner failed a bid of 4: the
\* team scores -40 - 100 with 2 bags; seat 1 made a blind nil
C11_Witness ==
    /\ ret # None
    /\ Get(arg).bids[0] = Some(0) /\ Get(arg).tpp[0] = 2
    /\ Get(arg).bids[2] = Some(4) /\ Get(arg).tpp[2] = 1
    /\ Get(arg).bids[3] = Some(0) /\ Get(arg).tpp[3] = 0
    /\ Get(ret).team1Score = 0 - 140
    /\ Get(ret).team1Bags = 2

\* C12: after a hand is scored the status is COMPLETED exactly when a team's
\* cumulative score is at or above the game's maxPoints or at or below its
\* minPoints.
C12_GameOverAtConfiguredThresholds ==
    ret # None =>
        (status = "COMPLETED" <=>
            \/ team1TotalScore >= maxPoints \/ team2TotalScore >= maxPoints
            \/ team1TotalScore <= minPoints \/ team2TotalScore <= minPoints)

\* C13: the team announced in game_over has a cumulative total strictly higher
\* than the other team's.
C13_WinnerStrictlyHigher ==
    gameOver # None =>
        LET g == Get(gameOver)
        IN  IF g.winningTeam = 1 THEN g.team1Score > g.team2Score
            ELSE g.team2Score > g.team1Score

\* C14: a game that is not COMPLETED is in exactly one of: WAITING with no
\* bidding and no play state, BIDDING with a bidding state, PLAYING with a play
\* state; the status is PLAYING whenever a play state exists.
C14_StatusMatchesPhase ==
    status # "COMPLETED" =>
        /\ \/ (status = "WAITING" /\ bidding = None /\ play = None)
           \/ (status = "BIDDING" /\ bidding # None)
           \/ (status = "PLAYING" /\ play # None)
        /\ play # None => status = "PLAYING"
        /\ DOMAIN players = Seats

\* C15: when trickNumber is 13, 13 completed tricks are recorded and all four
\* hands are empty.
C15_HandCompleteAtThirteen ==
    (play # None /\ Get(play).trickNumber = 13) =>
        /\ Len(Get(play).tricks) = 13
        /\ hands # None
        /\ \A s \in Seats : Get(hands)[s] = <<>>

\* the thirteenth trick has just been resolved
C15_Witness ==
    /\ play # None
    /\ Get(play).trickNumber = 13
    /\ Get(play).currentTrick = <<>>
    /\ Len(Get(play).tricks[13].cards) = 4

\* the requester is the occupant of the seat
isOccupant(ps, seatIndex, requesterId) ==
    /\ ps[seatIndex] # None
    /\ requesterId = Some(Get(ps[seatIndex]).id)

\* C16: an invite-bot request changes the roster only while the status is
\* WAITING and only when the requester is the occupant of seat 0; requests
\* made while seat 0 is empty or without a requester id change nothing.
C16_OnlyHostInvitesBot ==
    [][\A seatIndex \in SeatIndexes, r \in Requesters :
          (invite_bot(seatIndex, r) /\ players' # players)
          => (status = "WAITING" /\ isOccupant(players, 0, r))]_vars

\* C17: an invite-bot-midgame request for seat p changes the roster only when
\* the status is PLAYING, seat p is empty and the requester is the occupant of
\* seat (p+2) mod 4.
C17_OnlyPartnerInvitesMidgame ==
    [][\A seatIndex \in SeatIndexes, r \in Requesters :
          (invite_bot_midgame(seatIndex, r) /\ players' # players)
          => /\ status = "PLAYING"
             /\ seatIndex \in Seats
             /\ players[seatIndex] = None
             /\ isOccupant(players, (seatIndex + 2) % 4, r)]_vars

\* C18: remove-bot and remove-bot-midgame clear a seat only if it holds a bot
\* and the requester is the occupant of seat 0 (remove-bot, status WAITING) or
\* of seat (p+2) mod 4 (remove-bot-midgame, status not WAITING); no seat
\* holding a human is cleared.
C18_RemoveBotPermission ==
    [][\A seatIndex \in SeatIndexes, r \in Requesters :
          /\ (remove_bot(seatIndex, r) /\ players' # players)
             => /\ status = "WAITING"
                /\ holdsBot(players, seatIndex)
                /\ isOccupant(players, 0, r)
          /\ (remove_bot_midgame(seatIndex, r) /\ players' # players)
             => /\ status # "WAITING"
                /\ holdsBot(players, seatIndex)
                /\ isOccupant(players, (seatIndex + 2) % 4, r)]_vars

\* C19: a join request that returns from the balance lookup changes the roster
\* only by seating the human in the requested seat, which is in 0..3 and was
\* empty; a join into an occupied or out-of-range seat changes no seat.
C19_JoinSeatsOnlyRequestedEmptySeat ==
    [][\A j \in joins, lookup \in Lookups :
          join_resume(j, lookup) =>
             IF /\ lookup = "ok"
                /\ j.seat # None
                /\ Get(j.seat) \in Seats
                /\ players[Get(j.seat)] = None
             THEN /\ players'[Get(j.seat)] = Human(j.id)
                  /\ \A t \in Seats \ {Get(j.seat)} : players'[t] = players[t]
             ELSE players' = players]_vars

\* a join has seated a second human in seat 2, next to the creator
C19_Witness ==
    /\ players[0] = Human("u0")
    /\ players[2] = Human("u1")
    /\ joins = {}

occupiedSeats(ps) == {i \in Seats : ps[i] # None}

lowestOf(S) == CHOOSE i \in S : \A j \in S : i <= j

\* C20: assignDealer fails exactly when no seat is occupied; otherwise it
\* returns an occupied seat, which with a previous dealer d is (d+1) mod 4 if
\* that seat is occupied and the lowest-indexed occupied seat if it is not.
C20_AssignDealer ==
    ret # None =>
        LET in == Get(arg)
            occ == occupiedSeats(in.players)
            d == in.previousDealerIndex
        IN  /\ Get(ret) = None <=> occ = {}
            /\ occ # {} =>
                  /\ Get(Get(ret)) \in occ
                  /\ d # None =>
                        Get(Get(ret)) = IF (Get(d) + 1) % 4 \in occ THEN (Get(d) + 1) % 4
                                        ELSE lowestOf(occ)

\* seat 2 is empty and the previous dealer was seat 1: the dealer falls back to
\* seat 0
C20_Witness ==
    /\ ret # None
    /\ Get(arg).players[2] = None
    /\ Get(arg).players[0] # None
    /\ Get(arg).previousDealerIndex = Some(1)
    /\ Get(ret) = Some(0)

\* C21: dealCards gives each seat 13 cards, the i-th card of the shuffled deck
\* (i from 0) goes to seat (dealerIndex+1+i) mod 4 as that seat's next card,
\* and each of the 52 cards of the deck is in exactly one hand.
C21_DealRoundRobin ==
    ret # None =>
        LET dealt == Get(ret)
            deck == shuffle(createDeck, Get(arg).k)
            d == Get(arg).dealerIndex
        IN  /\ \A s \in Seats : Len(dealt[s]) = 13
            /\ \A i \in 0..51 : dealt[(d + 1 + i) % 4][(i \div 4) + 1] = deck[i + 1]
            /\ \A n \in 1..52 :
                  Cardinality({<<s, j>> \in Seats \X (1..13) : dealt[s][j] = createDeck[n]}) = 1

\* a cut deck dealt by dealer 3: seat 0 receives the first card of the deck
C21_Witness ==
    /\ ret # None
    /\ Get(arg).dealerIndex = 3
    /\ Get(arg).k = 2
    /\ Get(ret)[0][1] = shuffle(createDeck, 2)[1]
    /\ Get(ret)[0][1] # createDeck[1]

\* what a request must leave alone when it is answered with an error
validatedState == <<status, players, hands, bidding, play,
                    team1TotalScore, team2TotalScore, team1Bags, team2Bags>>

\* C22: a start, make_bid or play_card request that is answered with an error
\* leaves the status, the roster, the hands, the bids, the tricks, the turn
\* pointers and the totals as they were.
C22_ErrorsChangeNothing ==
    [][/\ \A in \in StartInputs :
             (start(in[1], in[2], in[3]) /\ startReply(in[1], in[3]) # "game_started")
             => UNCHANGED validatedState
       /\ \A rq \in BidRequests :
             (/\ make_bid(rq[1], rq[2])
              /\ makeBidReply(rq[1], rq[2]) \notin {"dropped", "bidding_update", "play_start"})
             => UNCHANGED validatedState
       /\ \A rq \in PlayRequests :
             (play_card(rq[1], rq[2]) /\ playCardError(rq[1], rq[2]) # "")
             => UNCHANGED validatedState]_vars

isHumanSeat(ps, i) == ps[i] # None /\ Get(ps[i]).type = "human"

\* C23: a start request in which the debit of some human seat fails leaves the
\* status WAITING and creates no dealer, no hands and no bidding state.
C23_FailedDebitBlocksStart ==
    [][\A in \in StartInputs :
          (/\ status = "WAITING"
           /\ \A i \in Seats : players[i] = None \/ isHumanSeat(players, i)
           /\ in[3] # None
           /\ isHumanSeat(players, Get(in[3]))
           /\ start(in[1], in[2], in[3]))
          => /\ status' = "WAITING"
             /\ dealerIndex' = None
             /\ hands' = None
             /\ bidding' = None]_vars

\* a start request has failed after debiting a seat: the game is still WAITING
C23_Witness ==
    /\ status = "WAITING"
    /\ \E u \in Users : debits[u] > 0
    /\ hands = None
    /\ bidding = None

\* C24: every step from WAITING to BIDDING debits the buy-in once from every
\* seat that holds a human, also when a seat holds a bot.
C24_StartDebitsEveryHuman ==
    [][(status = "WAITING" /\ status' = "BIDDING")
       => \A i \in Seats :
             isHumanSeat(players, i)
                => debits'[Get(players[i]).id] = debits[Get(players[i]).id] + 1]_vars

noHumanLeft(ps) == \A i \in Seats : ~isHumanSeat(ps, i)

\* C25: after a leave, by the leave route or by the leave_game socket event,
\* that leaves no human seated, the game is no longer in the games store.
C25_EmptyGameRemoved ==
    [][(/\ found
        /\ \E u \in Joiners :
              \/ leave(u)
              \/ \E s \in Requesters : s = Some(u) /\ leave_game(s, u)
        /\ noHumanLeft(players'))
       => GameId \notin games']_vars

\* C26: a game that is COMPLETED stays COMPLETED, and no later start, make_bid
\* or play_card changes the dealer, the hands, the bids, the tricks or the
\* totals, or starts another hand.
C26_CompletedIsFinal ==
    [][status = "COMPLETED"
       => /\ status' = "COMPLETED"
          /\ UNCHANGED <<dealerIndex, hands, bidding, play, gameOver,
                         team1TotalScore, team2TotalScore, team1Bags, team2Bags>>]_vars

\* the thirteenth trick of a hand has ended the game
C26_Witness ==
    /\ status = "COMPLETED"
    /\ gameOver # None
    /\ play # None
    /\ Get(play).trickNumber = HandTricks

\* C27: a make_bid request from a seat that is not the current bidder, or from
\* a seat whose bid is already recorded, changes no bid and no turn pointer; a
\* recorded bid keeps its value for the rest of the hand, play included.
C27_BidOnceInTurn ==
    [][/\ \A rq \in BidRequests :
             (/\ bidding # None
              /\ findIndex(players, rq[1]) # 0 - 1
              /\ \/ findIndex(players, rq[1]) # Get(bidding).currentBidderIndex
                 \/ Get(bidding).bids[findIndex(players, rq[1])] # None
              /\ make_bid(rq[1], rq[2]))
             => UNCHANGED <<bidding, play>>
       /\ \A i \in Seats :
             (bidding # None /\ Get(bidding).bids[i] # None)
             => (bidding' # None /\ Get(bidding').bids[i] = Get(bidding).bids[i])]_vars

\* cards are being played under four recorded bids
C27_Witness ==
    /\ bidding # None
    /\ \A i \in Seats : Get(bidding).bids[i] # None
    /\ play # None
    /\ cardsPlayed(Get(play)) > 0

holdsCard(hand, card) ==
    \E i \in 1..Len(hand) : hand[i].suit = card.suit /\ hand[i].rank = card.rank

\* C28: a play_card request from a seat other than play.currentPlayerIndex, or
\* for a card that is not in that seat's hand, is answered with an error and
\* leaves the hands, the current trick, the completed tricks and the turn
\* pointer unchanged.
C28_OutOfTurnOrForeignCardRejected ==
    [][\A rq \in PlayRequests :
          (/\ play # None /\ hands # None /\ bidding # None
           /\ findIndex(players, rq[1]) # 0 - 1
           /\ \/ findIndex(players, rq[1]) # Get(play).currentPlayerIndex
              \/ ~holdsCard(Get(hands)[findIndex(players, rq[1])], rq[2])
           /\ play_card(rq[1], rq[2]))
          => /\ playCardError(rq[1], rq[2]) \in {"Not your turn", "Card not in hand"}
             /\ UNCHANGED <<hands, play>>]_vars

\* a trick is under way: the seat on turn holds cards, and a card of the next
\* seat's hand is not among them
C28_Witness ==
    /\ play # None /\ hands # None
    /\ Len(Get(play).currentTrick) > 0
    /\ LET p == Get(play)
           hand == Get(hands)[p.currentPlayerIndex]
           next == Get(hands)[(p.currentPlayerIndex + 1) % 4]
       IN  /\ Len(hand) > 0 /\ Len(next) > 0
           /\ ~holdsCard(hand, next[1])
           /\ next[1] \in RequestCards

\* a spade, in the server's letters or in the client's symbols
isSpade(card) == card.suit \in {"S", SpadeSymbol}

cardsOf(seq) == {seq[i] : i \in 1..Len(seq)}

spadeInCompletedTricks(game) ==
    \E i \in 1..Len(game.completedTricks) :
        \E c \in cardsOf(game.completedTricks[i].cards) : isSpade(c)

\* C29: for the seat that leads a trick, getPlayableCards leaves out every
\* spade when no completed trick holds a spade and the hand holds a card that
\* is not a spade; it returns the whole hand when the hand is all spades or a
\* completed trick holds a spade.
C29_LeadingSpadesRule ==
    (ret # None /\ Len(Get(arg).game.currentTrick) = 0 /\ Len(Get(arg).hand) > 0)
    => LET game == Get(arg).game
           hand == Get(arg).hand
       IN  IF spadeInCompletedTricks(game) \/ \A c \in cardsOf(hand) : isSpade(c)
           THEN Get(ret) = hand
           ELSE cardsOf(Get(ret)) = {c \in cardsOf(hand) : ~isSpade(c)}

\* C30: for a seat that follows, getPlayableCards returns exactly the cards of
\* the suit led when the hand holds one, and the whole hand otherwise; for a
\* hand that is not empty the playable cards are never empty.
C30_FollowSuit ==
    ret # None
    => LET game == Get(arg).game
           hand == Get(arg).hand
       IN  /\ Len(game.currentTrick) > 0
              => LET ofSuit == {c \in cardsOf(hand) : c.suit = game.currentTrick[1].suit}
                 IN  /\ cardsOf(Get(ret)) = (IF ofSuit # {} THEN ofSuit ELSE cardsOf(hand))
                     /\ ofSuit = {} => Get(ret) = hand
           /\ Len(hand) > 0 => Len(Get(ret)) > 0

\* a seat that follows a club lead holds no club, and a spade: its whole hand
\* is playable
C30_Witness ==
    /\ ret # None
    /\ Len(Get(arg).game.currentTrick) > 0
    /\ Get(arg).game.currentTrick[1].suit = "C"
    /\ Len(Get(arg).hand) = MaxHand
    /\ \E c \in cardsOf(Get(arg).hand) : c.suit = "S"
    /\ Get(ret) = Get(arg).hand

\* the score of one seat on its own bid and tricks: the nil bonus for a nil
\* bid, the base contract otherwise
soloSeatScore(b, tricks) ==
    IF b = Some(0) THEN nilScore(b, tricks)
    ELSE IF tricks >= Get(b) THEN Get(b) * 10 + (tricks - Get(b))
    ELSE 0 - Get(b) * 10

\* C31: in a game whose mode is SOLO the score of a hand is computed seat by
\* seat, from the seat's own bid and tricks: what the hand credits to seats 0
\* and 2 (and to seats 1 and 3) is the sum of their own scores, and the bags of
\* partner seats are not pooled.
C31_SoloScoredPerSeat ==
    (gameMode = "SOLO" /\ ret # None)
    => LET bids == Get(arg).bids
           tpp == Get(arg).tpp
       IN  /\ Get(ret).team1Score = soloSeatScore(bids[0], tpp[0]) + soloSeatScore(bids[2], tpp[2])
           /\ Get(ret).team2Score = soloSeatScore(bids[1], tpp[1]) + soloSeatScore(bids[3], tpp[3])

\* the bags one hand's scoring counts for the team of seats a and b, before
\* the penalty of lines 821-829
handBags(bids, tpp, a, b) ==
    baseContract(teamBid(bids, a, b), tpp[a] + tpp[b]).bags
        + nilBonus(bids[a], tpp[a]).bags + nilBonus(bids[b], tpp[b]).bags

\* C32: for every four bids and every split of the 13 tricks, the bags that the
\* scoring of one hand counts for a team before the penalty are at most 13, so
\* that after the one penalty of the hand fewer than 10 of them are left.
C32_HandBagsAtMostThirteen ==
    ret # None
    => /\ handBags(Get(arg).bids, Get(arg).tpp, 0, 2) <= HandTricks
       /\ handBags(Get(arg).bids, Get(arg).tpp, 1, 3) <= HandTricks
       /\ Get(ret).team1Bags < 10
       /\ Get(ret).team2Bags < 10

\* C33: a play_card request made before the game has been started, or before
\* all four bids of the hand are recorded, is answered with the error 'Invalid
\* game state' and changes nothing.
C33_NoPlayBeforeBidsComplete ==
    [][\A rq \in PlayRequests :
          (/\ \/ status = "WAITING"
              \/ bidding = None
              \/ \E i \in Seats : Get(bidding).bids[i] = None
           /\ play_card(rq[1], rq[2]))
          => /\ playCardError(rq[1], rq[2]) = "Invalid game state"
             /\ UNCHANGED vars]_vars

\* the hand is dealt and two of the four bids are recorded
C33_Witness ==
    /\ hands # None
    /\ bidding # None
    /\ Cardinality({i \in Seats : Get(bidding).bids[i] # None}) = 2
    /\ play = None
    /\ PlayRequests # {}

\* C34: the completed tricks of a hand are append-only: a step leaves every
\* record in place and appends at most one, appended exactly when the fourth
\* card of a trick is played; every record holds 4 cards and a winner, and
\* trickNumber is the number of records and at most 13.
C34_TricksAppendOnly ==
    [][play # None
       => /\ play' # None
          /\ LET old == Get(play).tricks
                 new == Get(play').tricks
             IN  /\ Len(new) >= Len(old) /\ Len(new) <= Len(old) + 1
                 /\ \A i \in 1..Len(old) : new[i] = old[i]
                 /\ Len(new) = Len(old) + 1
                       <=> (Len(Get(play).currentTrick) = 3 /\ hands' # hands)
                 /\ \A i \in 1..Len(new) : Len(new[i].cards) = 4 /\ new[i].winnerIndex \in Seats
                 /\ Get(play').trickNumber = Len(new)
                 /\ Len(new) <= HandTricks]_vars

\* three tricks are recorded and a fourth is under way
C34_Witness ==
    /\ play # None
    /\ Len(Get(play).tricks) = 3
    /\ Get(play).trickNumber = 3
    /\ Len(Get(play).currentTrick) = 2

spectatorIds == {spectators[i] : i \in 1..Len(spectators)}

\* C35: no user id is at the same time seated as a player and listed as a
\* spectator of the game, after any sequence of join, spectate and leave
\* requests.
C35_PlayerNotSpectator ==
    \A i \in Seats : players[i] # None => Get(players[i]).id \notin spectatorIds

\* C36: a player id occupies at most one seat of the game, also when two join
\* requests of the same player for different seats are in flight together.
C36_OneSeatPerPlayer ==
    \A i, j \in Seats :
        (i # j /\ players[i] # None /\ players[j] # None)
        => Get(players[i]).id # Get(players[j]).id

\* C37: when start requests for the same WAITING game interleave at the
\* awaited debits, each human is debited at most once and the dealer, the hands
\* and the bidding state are created at most once: once the game is BIDDING no
\* request that is still in flight debits a seat, and none replaces the dealer,
\* the hands or the bidding state.
C37_StartOnceUnderInterleaving ==
    [][/\ dealerIndex # None => dealerIndex' = dealerIndex
       /\ hands # None => hands' = hands
       /\ bidding # None => bidding' = bidding
       /\ status = "BIDDING" => debits' = debits]_vars

\* C38: in a game of four humans that has been started, with the seat on turn
\* always submitting a bid and then a card of its hand, the hand reaches
\* trickNumber 13 (and is scored), whatever the dealer index.
C38_HandTerminates ==
    (status = "BIDDING" /\ hands # None)
        ~> (play # None /\ Get(play).trickNumber = HandTricks)

\* the cards of a trick are tagged clockwise from the seat that led it
clockwiseFromLeader(cards) ==
    \A j \in 1..Len(cards) : cards[j].playerIndex = (cards[1].playerIndex + j - 1) % 4

\* C39: within every trick each seat plays exactly one card: the 4 cards of a
\* completed trick carry 4 distinct seat indexes, in clockwise order from the
\* seat that led, and the cards of the trick under way are tagged the same way.
C39_OneCardPerSeatClockwise ==
    play # None
    => /\ \A t \in 1..Len(Get(play).tricks) :
             /\ Len(Get(play).tricks[t].cards) = 4
             /\ clockwiseFromLeader(Get(play).tricks[t].cards)
             /\ {Get(play).tricks[t].cards[j].playerIndex : j \in 1..4} = Seats
       /\ clockwiseFromLeader(Get(play).currentTrick)

\* two tricks are complete, the second led from another seat than the first
C39_Witness ==
    /\ play # None
    /\ Len(Get(play).tricks) >= 2
    /\ Get(play).tricks[1].cards[1].playerIndex # Get(play).tricks[2].cards[1].playerIndex

\* C40: a roster request made while a hand is live (join, invite-bot-midgame,
\* remove-bot-midgame, leave, leave_game) changes at most one seat, the one it
\* names, and leaves the dealer, the dealt hands, the bids, the current and the
\* completed tricks, the turn pointers and the totals unchanged.
C40_RosterFrame ==
    [][(status # "WAITING" /\ hands # None /\ MidRoster)
       => /\ UNCHANGED <<status, dealerIndex, hands, bidding, play, gameOver,
                         team1TotalScore, team2TotalScore, team1Bags, team2Bags>>
          /\ Cardinality({i \in Seats : players'[i] # players[i]}) <= 1
          /\ \A seatIndex \in Seats, r \in Requesters :
                (invite_bot_midgame(seatIndex, r) \/ remove_bot_midgame(seatIndex, r))
                => \A i \in Seats \ {seatIndex} : players'[i] = players[i]
          /\ \A j \in joins, lookup \in Lookups :
                (join_resume(j, lookup) /\ j.seat # None)
                => \A i \in Seats \ {Get(j.seat)} : players'[i] = players[i]
          /\ \A u \in Joiners :
                (leave(u) \/ leave_game(Some(u), u))
                => \A i \in Seats \ {findIndex(players, u)} : players'[i] = players[i]]_vars

\* cards have been played and bids recorded, and the roster is no longer the
\* one the hand was started with: seat 0 holds a bot
C40_Witness ==
    /\ play # None
    /\ cardsPlayed(Get(play)) >= 4
    /\ Len(Get(play).tricks) >= 1
    /\ players[0] = Bot("bot-0")

====
